---------------------------- MODULE Spec2Model ----------------------------
(***************************************************************************)
(* ft_fastpath: the parallel repository scan (scan_repo_parallel, built on *)
(* ignore::WalkBuilder and a crossbeam channel) and the parallel content   *)
(* hasher (hash_files_parallel, built on rayon and blake3).                *)
(*                                                                         *)
(* The walker and the rule matching are the `ignore` crate's: the model    *)
(* follows what the builder options set in the source select in that       *)
(* crate (WalkParallel::run, Worker::run_one, Worker::generate_work,       *)
(* Ignore::matched, Gitignore::matched).                                   *)
(***************************************************************************)
EXTENDS Naturals, Sequences, FiniteSets, TLC

(***************************************************************************)
(* Bounds of the model.                                                    *)
(***************************************************************************)
\* The largest `threads` argument tried (0 = let the walker decide).
MaxThreads == 2
\* The longest path list handed to hash_files_parallel.
MaxPaths == 3

(***************************************************************************)
(* File names.  A name is the sequence of its dot-separated parts, so that *)
(* a glob can be matched part by part: ".git" is <<"", "git">>, "a.txt" is *)
(* <<"a", "txt">>.  A path is the sequence of names below the scan root.   *)
(***************************************************************************)
GIT == <<"", "git">>
GITIGNORE == <<"", "gitignore">>
IGNORE == <<"", "ignore">>
HEAD == <<"HEAD">>
INFO == <<"info">>
EXCLUDE == <<"exclude">>
A_TXT == <<"a", "txt">>
B_LOG == <<"b", "log">>
A_LOG == <<"a", "log">>
KEEP_LOG == <<"keep", "log">>
SUB == <<"sub">>

\* The rules ("globs") a rule file may hold: neg is the `!` prefix.
StarLog == [neg |-> FALSE, glob |-> <<"*", "log">>]
NotKeep == [neg |-> TRUE, glob |-> KEEP_LOG]
NoSub == [neg |-> FALSE, glob |-> SUB]
NotGit == [neg |-> TRUE, glob |-> GIT]

\* Contents of a rule file (the empty content stands for: no such file).
RuleFiles ==
    { <<>>, <<StarLog>>, <<StarLog, NotKeep>>, <<NotKeep, StarLog>>,
      <<NoSub>>, <<NotGit>> }
FewRuleFiles == { <<>>, <<NotKeep>> }
SubRuleFiles == { <<>>, <<StarLog>>, <<NotKeep>>, <<StarLog, NotKeep>> }

(***************************************************************************)
(* The directory tree under scan.  root: what root_path names; git: is     *)
(* there a .git directory (holding HEAD and info/exclude); sub: what the   *)
(* entry "sub" is; ign, gi, excl, subgi: the contents of /.ignore,         *)
(* /.gitignore, /.git/info/exclude and /sub/.gitignore; stat: what reading *)
(* the metadata of /a.txt gives.                                           *)
(***************************************************************************)
BareTree(k) ==
    [root |-> k, git |-> FALSE, sub |-> "none", ign |-> <<>>, gi |-> <<>>,
     excl |-> <<>>, subgi |-> <<>>, stat |-> "ok"]

Trees ==
    { BareTree(k) : k \in {"missing", "file", "unreadable"} }
    \cup
    { t \in [root : {"dir"}, git : BOOLEAN,
             sub : {"none", "dir", "symlink", "unreadable"},
             ign : FewRuleFiles, gi : RuleFiles, excl : {<<>>, <<StarLog>>},
             subgi : SubRuleFiles, stat : {"ok", "err", "nomtime"}] :
        /\ (~t.git => /\ t.excl = <<>>
                       /\ t.gi \in { <<>>, <<StarLog>> }
                       /\ t.subgi \in { <<>>, <<StarLog, NotKeep>> })
        /\ (t.sub # "dir" => t.subgi = <<>> /\ t.ign = <<>>)
        /\ (t.excl # <<>> => t.gi = <<>>)
        /\ (t.stat # "ok" =>
               t.ign = <<>> /\ t.gi = <<>> /\ t.excl = <<>> /\ t.subgi = <<>>) }

\* The trees without rule files other than /.gitignore and
\* /.git/info/exclude, without metadata
\* failures and without links: the path-only scan is run on these, and so
\* is the scan that leaves the number of workers to the walker (which then
\* behaves as a scan with that number asked for).
PlainTrees ==
    { t \in Trees :
        /\ t.stat = "ok" /\ t.ign = <<>> /\ t.subgi = <<>>
        /\ t.gi \in { <<>>, <<StarLog>> }
        /\ t.sub \in {"none", "dir"} }

VARIABLES
    op,        \* the entry point called: "scan", "hash" or "paths"
    pc,        \* where the calling thread is
    gil,       \* TRUE while the calling thread holds the host's global lock
    fs,        \* the directory tree (never changed by the program)
    threads,   \* scan_repo_parallel's `threads` argument
    stack,     \* the walker's pending work, last pushed first
    wstate,    \* per worker: "unspawned", "idle", "busy", "quit"
    cur,       \* per worker: the work it has claimed
    quitNow,   \* the walker's quit flag (a callback answered Quit)
    senders,   \* the live producer handles of the channel: 0 is tx
    chan,      \* the entries sent and not yet received
    out,       \* the vector the drain loop fills
    sentLog,   \* every entry handed to tx.send so far (history)
    paths,     \* hash_files_parallel's argument
    hstate,    \* per input position: "todo", "read", "done"
    hdata,     \* per input position: the bytes read
    hres,      \* per input position: the pair produced
    files,     \* the path-only scan's vector `files`, as its caller holds it
    wfiles,    \* per worker: the vector its path-only callback pushes into
    result     \* what the call hands back to the host

vars == << op, pc, gil, fs, threads, stack, wstate, cur, quitNow, senders,
           chan, out, sentLog, paths, hstate, hdata, hres, files, wfiles,
           result >>

(***************************************************************************)
(* The file system.                                                        *)
(***************************************************************************)
\* The names a directory would list, in the order read_dir yields them.
DirNames(p) ==
    IF p = <<>> THEN << GIT, GITIGNORE, IGNORE, A_TXT, B_LOG, SUB >>
    ELSE IF p = <<GIT>> THEN << HEAD, INFO >>
    ELSE IF p = <<GIT, INFO>> THEN << EXCLUDE >>
    ELSE IF p = <<SUB>> THEN << GITIGNORE, A_LOG, KEEP_LOG >>
    ELSE <<>>

\* The file type of path p in tree t, as lstat gives it ("none": no entry).
KindIn(t, p) ==
    IF p = <<>> THEN t.root
    ELSE IF t.root # "dir" THEN "none"
    ELSE IF p[1] = GIT
         THEN IF ~t.git THEN "none"
              ELSE IF p \in { <<GIT>>, <<GIT, INFO>> } THEN "dir"
              ELSE IF p = <<GIT, HEAD>> THEN "file"
              ELSE IF p = <<GIT, INFO, EXCLUDE>>
                   THEN IF t.excl # <<>> THEN "file" ELSE "none"
              ELSE "none"
    ELSE IF p = <<GITIGNORE>> THEN IF t.gi # <<>> THEN "file" ELSE "none"
    ELSE IF p = <<IGNORE>> THEN IF t.ign # <<>> THEN "file" ELSE "none"
    ELSE IF p \in { <<A_TXT>>, <<B_LOG>> } THEN "file"
    ELSE IF p = <<SUB>> THEN t.sub
    ELSE IF p[1] = SUB
         THEN IF t.sub = "none" THEN "none"
              ELSE IF p = <<SUB, GITIGNORE>>
                   THEN IF t.subgi # <<>> THEN "file" ELSE "none"
              ELSE IF p \in { <<SUB, A_LOG>>, <<SUB, KEEP_LOG>> } THEN "file"
              ELSE "none"
    ELSE "none"

Kind(p) == KindIn(fs, p)

\* fs::read_dir(p): the names of the entries of p (of its target, were p a
\* symbolic link that is followed).
ReadDirIn(t, p) ==
    SelectSeq(DirNames(p), LAMBDA n : KindIn(t, Append(p, n)) # "none")

\* The rules of the rule file of `kind` that directory d holds.
RulesAtIn(t, d, kind) ==
    IF d = <<>> /\ kind = "ignore" THEN t.ign
    ELSE IF d = <<>> /\ kind = "gitignore" THEN t.gi
    ELSE IF d = <<>> /\ kind = "exclude" THEN t.excl
    ELSE IF d = <<SUB>> /\ kind = "gitignore" THEN t.subgi
    ELSE <<>>

\* Does directory d hold a .git entry (Ignore's has_git)?
HasGitIn(t, d) == d = <<>> /\ t.git

\* fs::metadata of a file: the byte count and the modification time.
SizeOf(p) == IF p = <<>> THEN 7 ELSE 10 * Len(p) + Len(p[Len(p)])
MtimeOf(p) == 1700000000 + Len(p)

(***************************************************************************)
(* The rule engine of the walker, as the builder configures it.            *)
(***************************************************************************)
\* builder.hidden(false): entries whose name starts with a dot are not
\* filtered out as hidden.
HiddenOpt == FALSE
\* builder.git_ignore(true): .gitignore files are read.
GitIgnoreOpt == TRUE
\* builder.git_exclude(true): .git/info/exclude is read.
GitExcludeOpt == TRUE
\* builder.follow_links(false): a symbolic link is not resolved.
FollowLinksOpt == FALSE

IsHidden(name) == name[1] = ""

\* One glob against one name: the parts agree, `*` standing for any part.
GlobMatch(glob, name) ==
    /\ Len(glob) = Len(name)
    /\ \A i \in 1..Len(glob) : glob[i] = "*" \/ glob[i] = name[i]

\* Gitignore::matched over rules[1..i]: the last rule that matches decides.
RECURSIVE LastMatch(_, _, _)
LastMatch(rules, name, i) ==
    IF i = 0 THEN "none"
    ELSE IF GlobMatch(rules[i].glob, name)
         THEN IF rules[i].neg THEN "whitelist" ELSE "ignore"
         ELSE LastMatch(rules, name, i - 1)

\* A faulty variant: the first rule that matches decides.
RECURSIVE FirstMatch(_, _, _)
FirstMatch(rules, name, i) ==
    IF i > Len(rules) THEN "none"
    ELSE IF GlobMatch(rules[i].glob, name)
         THEN IF rules[i].neg THEN "whitelist" ELSE "ignore"
         ELSE FirstMatch(rules, name, i + 1)

GitignoreFirstMatch(rules, name) == FirstMatch(rules, name, 1)

GitignoreMatched(rules, name) == LastMatch(rules, name, Len(rules))

\* Ignore::parents: directory d and its ancestors, the deepest first.
RECURSIVE Parents(_)
Parents(d) ==
    IF d = <<>> THEN << <<>> >>
    ELSE <<d>> \o Parents(SubSeq(d, 1, Len(d) - 1))

\* The first directory of chain[i..] whose rule file of `kind` has a match
\* decides for that kind.  The git kinds stop at the repository root: once
\* a directory holding .git is passed (saw_git), no ancestor is asked.
RECURSIVE FirstLevel(_, _, _, _, _, _)
FirstLevel(t, kind, chain, name, i, gitOnly) ==
    IF i > Len(chain) THEN "none"
    ELSE LET m == GitignoreMatched(RulesAtIn(t, chain[i], kind), name)
         IN  IF m # "none" THEN m
             ELSE IF gitOnly /\ HasGitIn(t, chain[i]) THEN "none"
             ELSE FirstLevel(t, kind, chain, name, i + 1, gitOnly)

\* Ignore::matched_ignore for the entry `name` of directory d: .ignore
\* files before .gitignore files before .git/info/exclude, whatever their
\* depth; the git kinds count only inside a repository (require_git).
MatchedIgnore(t, d, name) ==
    LET chain == Parents(d)
        anyGit == \E i \in 1..Len(chain) : HasGitIn(t, chain[i])
        mIgnore == FirstLevel(t, "ignore", chain, name, 1, FALSE)
        mGi == IF GitIgnoreOpt /\ anyGit
               THEN FirstLevel(t, "gitignore", chain, name, 1, TRUE)
               ELSE "none"
        mExcl == IF GitExcludeOpt /\ anyGit
                 THEN FirstLevel(t, "exclude", chain, name, 1, TRUE)
                 ELSE "none"
    IN  IF mIgnore # "none" THEN mIgnore
        ELSE IF mGi # "none" THEN mGi
        ELSE mExcl

\* Ignore::matched: the rule files, then the hidden filter.
Matched(t, d, name) ==
    LET m == MatchedIgnore(t, d, name)
    IN  IF m = "ignore" THEN "ignore"
        ELSE IF m = "none" /\ HiddenOpt /\ IsHidden(name) THEN "ignore"
        ELSE m

\* A faulty variant: only files are skipped, a directory always becomes
\* work.
ShouldSkipFileOnly(t, d, name) ==
    Matched(t, d, name) = "ignore" /\ KindIn(t, Append(d, name)) = "file"

\* Worker::generate_work's should_skip_entry.
ShouldSkipEntry(t, d, name) == Matched(t, d, name) = "ignore"

\* The file type of a directory entry as the walker records it: lstat's,
\* or the target's when links are followed.
EntryType(t, p) ==
    LET k == KindIn(t, p)
    IN  IF k = "unreadable" THEN "dir"
        ELSE IF k = "symlink" /\ FollowLinksOpt THEN "dir"
        ELSE k

(***************************************************************************)
(* The callback of scan_repo_parallel.                                     *)
(***************************************************************************)
\* dirent.metadata(): fails for /a.txt when fs.stat = "err"; its modified()
\* is unusable when fs.stat = "nomtime".
Metadata(t, p) ==
    IF p = <<A_TXT>> /\ t.stat = "err"
    THEN [ok |-> FALSE, len |-> 0, mok |-> FALSE, secs |-> 0]
    ELSE [ok |-> TRUE, len |-> SizeOf(p),
          mok |-> ~(p = <<A_TXT>> /\ t.stat = "nomtime"),
          secs |-> MtimeOf(p)]

\* The (size, mtime_s) match.
SizeMtime(t, p) ==
    LET md == Metadata(t, p)
    IN  IF md.ok
        THEN [size |-> md.len, mtime_s |-> IF md.mok THEN md.secs ELSE 0]
        ELSE [size |-> 0, mtime_s |-> 0]

\* A faulty variant: everything but a directory passes.
IsNotDir(ft) == ft # "dir"

\* dirent.file_type().map(|ft| ft.is_file()).unwrap_or(false)
IsFile(ft) == ft = "file"

\* A faulty variant: the callback stops the walk once it has sent an entry.
CallbackStateQuitOnSend(sent) == IF sent THEN "Quit" ELSE "Continue"

\* A faulty variant: the callback stops the walk on an entry it does not
\* send (an Err, a directory, a link).
CallbackStateQuitOnSkip(sent) == IF sent THEN "Continue" ELSE "Quit"

\* What the callback answers, whether or not it has sent an entry:
\* WalkState::Continue.
CallbackState(sent) == "Continue"

\* A faulty variant: a file whose metadata cannot be read is not sent.
CallbackSkipOnStatErr(t, entry) ==
    IF entry.ok /\ IsFile(entry.ft) /\ Metadata(t, entry.path).ok
    THEN LET sm == SizeMtime(t, entry.path)
         IN  [send |-> << [path |-> entry.path, size |-> sm.size,
                           mtime_s |-> sm.mtime_s] >>,
              state |-> CallbackState(TRUE)]
    ELSE [send |-> <<>>, state |-> CallbackState(FALSE)]

\* The callback on one entry the walker delivers: entry.ok is FALSE for an
\* Err.  It answers the entries it sends and the WalkState it returns.
Callback(t, entry) ==
    IF entry.ok /\ IsFile(entry.ft)
    THEN LET sm == SizeMtime(t, entry.path)
         IN  [send |-> << [path |-> entry.path, size |-> sm.size,
                           mtime_s |-> sm.mtime_s] >>,
              state |-> CallbackState(TRUE)]
    ELSE [send |-> <<>>, state |-> CallbackState(FALSE)]

OkEntry(w) == [ok |-> TRUE, path |-> w.path, ft |-> w.ft]
ErrEntry(p) == [ok |-> FALSE, path |-> p, ft |-> "none"]

\* A faulty variant: an empty result is handed back as an error.
ReturnValueErrOnEmpty(entries) == [ok |-> entries # <<>>, val |-> entries]

\* A faulty variant: the receiving end is dropped as soon as it is made.
RxDropped == FALSE

\* The receiving end rx lives from chan::unbounded() to the end of the
\* drain loop: it is there whenever a callback sends.
RxAlive == TRUE

\* A faulty variant: a channel with room for one entry, so that a send
\* waits until the entry before it has been received.
CanSendBounded(ch, entries) == Len(ch) + Len(entries) <= 1

\* tx.send(entry) on an unbounded channel never waits for room.
CanSend(ch, entries) == TRUE

\* let _ = tx.send(...): the entries reach the channel while rx lives; a
\* failed send is ignored.
Send(ch, entries) == IF RxAlive THEN ch \o entries ELSE ch

\* A faulty variant: entries of size 0 are left out of the vector.
PushUnlessEmpty(o, fe) == IF fe.size = 0 THEN o ELSE Append(o, fe)

\* out.push(fe)
Push(o, fe) == Append(o, fe)

\* Ok(entries)
ReturnValue(entries) == [ok |-> TRUE, val |-> entries]

\* Does the entry point run its work inside py.allow_threads?
\* scan_repo_parallel does; hash_files_parallel takes no Python token and
\* never releases the lock.
ScanAllowsThreads == TRUE
HashAllowsThreads == FALSE

(***************************************************************************)
(* The hasher.                                                             *)
(***************************************************************************)
\* The files hash_files_parallel may be handed: f1 and f2 hold the same
\* bytes, f3 other bytes, f0 is empty and "gone" cannot be read.
HashPaths == {"f1", "f2", "f3", "f0", "gone"}
Readable(p) == p # "gone"
Content(p) ==
    IF p \in {"f1", "f2"} THEN <<1, 2>>
    ELSE IF p = "f3" THEN <<2, 1>>
    ELSE <<>>

\* A faulty variant: a file that cannot be read yields a placeholder byte.
ReadOrPlaceholder(p) == IF Readable(p) THEN Content(p) ELSE <<0>>

\* fs::read(p).unwrap_or_default()
ReadOrDefault(p) == IF Readable(p) THEN Content(p) ELSE <<>>

\* Hasher::new, update, finalize: a digest of the bytes, here 8 bits wide.
RECURSIVE Absorb(_, _, _)
Absorb(h, data, i) ==
    IF i > Len(data) THEN h
    ELSE Absorb((h * 7 + data[i]) % 256, data, i + 1)

Blake3(data) == Absorb(5, data, 1)

\* to_hex(): two lowercase hexadecimal digits per byte.
HexDigits ==
    << "0", "1", "2", "3", "4", "5", "6", "7",
       "8", "9", "a", "b", "c", "d", "e", "f" >>
ToHex(v) == << HexDigits[(v \div 16) + 1], HexDigits[(v % 16) + 1] >>

\* A faulty variant: the path is fed to the hasher before the bytes.
PathBytes(p) == IF p = "f1" THEN <<1>> ELSE <<2>>
HashPairWithPath(p, data) == << p, ToHex(Blake3(PathBytes(p) \o data)) >>

\* The closure of the parallel map on one path and the bytes read for it.
HashPair(p, data) == << p, ToHex(Blake3(data)) >>

(***************************************************************************)
(* The state after the host has made its call.                             *)
(***************************************************************************)
\* if threads > 0 { builder.threads(threads) }: the worker counts the walk
\* may run with; for threads = 0 the walker decides.
WorkerCounts(n) == IF n > 0 THEN {n} ELSE 1..MaxThreads

NoWork == [path |-> <<>>, ft |-> "none"]
NoResult == [ok |-> FALSE, val |-> <<>>]

RECURSIVE SeqsUpTo(_, _)
SeqsUpTo(S, n) ==
    IF n = 0 THEN { <<>> }
    ELSE LET shorter == SeqsUpTo(S, n - 1)
         IN  shorter \cup { Append(q, x) : q \in shorter, x \in S }

Init ==
    /\ op \in {"scan", "hash", "paths"}
    /\ pc = "call"
    /\ gil = TRUE
    /\ IF op = "scan"
       THEN /\ threads \in 0..MaxThreads
            /\ fs \in IF threads = 0 THEN PlainTrees ELSE Trees
            /\ paths = <<>>
       ELSE IF op = "paths"
       THEN /\ fs \in PlainTrees
            /\ threads = 0
            /\ paths = <<>>
       ELSE /\ fs = BareTree("missing")
            /\ threads = 0
            /\ paths \in SeqsUpTo(HashPaths, MaxPaths)
    /\ stack = <<>>
    /\ \E n \in WorkerCounts(threads) :
           /\ wstate = [w \in 1..n |-> "unspawned"]
           /\ cur = [w \in 1..n |-> NoWork]
           /\ wfiles = [w \in 1..n |-> <<>>]
    /\ quitNow = FALSE
    /\ senders = {}
    /\ chan = <<>>
    /\ out = <<>>
    /\ sentLog = <<>>
    /\ files = <<>>
    /\ hstate = [i \in 1..Len(paths) |-> "todo"]
    /\ hdata = [i \in 1..Len(paths) |-> <<>>]
    /\ hres = [i \in 1..Len(paths) |-> <<>>]
    /\ result = NoResult

Workers == DOMAIN wstate

hashVars == << paths, hstate, hdata, hres >>
walkVars == << stack, wstate, cur, quitNow >>
pathVars == << files, wfiles >>

\* The entry points that walk a tree.
WalkOps == {"scan", "paths"}

(***************************************************************************)
(* scan_repo_parallel.                                                     *)
(***************************************************************************)
\* py.allow_threads(|| { let (tx, rx) = chan::unbounded(); ... builder ...
ScanCall ==
    /\ op = "scan" /\ pc = "call"
    /\ gil' = ~ScanAllowsThreads
    /\ senders' = {0}
    /\ pc' = "run"
    /\ UNCHANGED << op, fs, threads, walkVars, chan, sentLog, out, hashVars, pathVars,
                    result >>

\* WalkParallel::run on the root path: a root that cannot be stat'ed goes
\* to the callback as an Err and nothing is walked; any other root becomes
\* the first piece of work.
RunWalk ==
    /\ op = "scan" /\ pc = "run"
    /\ IF Kind(<<>>) = "missing"
       THEN LET r == Callback(fs, ErrEntry(<<>>))
            IN  /\ CanSend(chan, r.send)
                /\ chan' = Send(chan, r.send)
                /\ sentLog' = sentLog \o r.send
                /\ pc' = "joined"
                /\ UNCHANGED stack
       ELSE /\ stack' = << [path |-> <<>>, ft |-> EntryType(fs, <<>>)] >>
            /\ pc' = "spawn"
            /\ UNCHANGED << chan, sentLog >>
    /\ UNCHANGED << op, gil, fs, threads, wstate, cur, quitNow, senders, out,
                    hashVars, pathVars, result >>

\* run(|| { let tx = tx.clone(); Box::new(...) }): the next worker gets its
\* callback, which owns a clone of tx, and starts.
Spawn(w) ==
    /\ op = "scan" /\ pc = "spawn"
    /\ wstate[w] = "unspawned"
    /\ \A v \in Workers : v < w => wstate[v] # "unspawned"
    /\ wstate' = [wstate EXCEPT ![w] = "idle"]
    /\ senders' = senders \cup {w}
    /\ pc' = IF \A v \in Workers \ {w} : wstate[v] # "unspawned"
             THEN "join" ELSE "spawn"
    /\ UNCHANGED << op, gil, fs, threads, stack, cur, quitNow, chan, sentLog,
                    out, hashVars, pathVars, result >>

\* A worker takes the work pushed last.
Claim(w) ==
    /\ op \in WalkOps /\ pc \in {"spawn", "join"}
    /\ wstate[w] = "idle"
    /\ ~quitNow
    /\ stack # <<>>
    /\ cur' = [cur EXCEPT ![w] = stack[Len(stack)]]
    /\ stack' = SubSeq(stack, 1, Len(stack) - 1)
    /\ wstate' = [wstate EXCEPT ![w] = "busy"]
    /\ UNCHANGED << op, pc, gil, fs, threads, quitNow, senders, chan, sentLog,
                    out, hashVars, pathVars, result >>

\* Worker::generate_work over the listing of directory d: an entry the
\* rules skip is dropped, every other entry becomes work.
RECURSIVE GenerateWork(_, _, _, _)
GenerateWork(t, d, names, i) ==
    IF i > Len(names) THEN <<>>
    ELSE LET p == Append(d, names[i])
             rest == GenerateWork(t, d, names, i + 1)
         IN  IF ShouldSkipEntry(t, d, names[i]) THEN rest
             ELSE << [path |-> p, ft |-> EntryType(t, p)] >> \o rest

\* Worker::run_one on the claimed work: anything but a directory goes to
\* the callback; a directory goes to the callback, is listed (a listing
\* that fails goes to the callback as an Err) and its entries become work.
RunOne(w) ==
    /\ op = "scan" /\ pc \in {"spawn", "join"}
    /\ wstate[w] = "busy"
    /\ LET work == cur[w]
           r == Callback(fs, OkEntry(work))
           isDir == work.ft = "dir"
           listed == isDir /\ Kind(work.path) # "unreadable"
           e == IF isDir /\ ~listed
                THEN Callback(fs, ErrEntry(work.path))
                ELSE [send |-> <<>>, state |-> "Continue"]
       IN  /\ CanSend(chan, r.send \o e.send)
           /\ chan' = Send(chan, r.send \o e.send)
           /\ sentLog' = sentLog \o r.send \o e.send
           /\ stack' = IF listed /\ r.state = "Continue"
                       THEN stack \o GenerateWork(fs, work.path,
                                                  ReadDirIn(fs, work.path), 1)
                       ELSE stack
           /\ quitNow' = (quitNow \/ r.state = "Quit" \/ e.state = "Quit")
    /\ wstate' = [wstate EXCEPT ![w] = "idle"]
    /\ cur' = [cur EXCEPT ![w] = NoWork]
    /\ UNCHANGED << op, pc, gil, fs, threads, senders, out, hashVars, pathVars, result >>

\* A faulty variant: a worker that finds the stack empty stops, whatever
\* the other workers are doing.
StackIsEmpty == stack = <<>>

\* The walk is over: nothing is on the stack and no worker holds work that
\* could still push some.
NoPendingWork == stack = <<>> /\ \A v \in DOMAIN wstate : wstate[v] # "busy"

\* A worker stops when no work is pending anywhere, or when the quit flag
\* is set; its callback, and with it its clone of tx, is dropped.
Quit(w) ==
    /\ op \in WalkOps /\ pc \in {"spawn", "join"}
    /\ wstate[w] = "idle"
    /\ \/ quitNow
       \/ NoPendingWork
    /\ wstate' = [wstate EXCEPT ![w] = "quit"]
    /\ senders' = senders \ {w}
    /\ UNCHANGED << op, pc, gil, fs, threads, stack, cur, quitNow, chan,
                    sentLog, out, hashVars, pathVars, result >>

\* run returns once every worker has stopped.
Join ==
    /\ op \in WalkOps /\ pc = "join"
    /\ \A w \in Workers : wstate[w] = "quit"
    /\ pc' = "joined"
    /\ UNCHANGED << op, gil, fs, threads, walkVars, senders, chan, sentLog, out,
                    hashVars, pathVars, result >>

\* drop(tx); let mut out = Vec::new();
DropTx ==
    /\ op = "scan" /\ pc = "joined"
    /\ senders' = senders \ {0}
    /\ out' = <<>>
    /\ pc' = "drain"
    /\ UNCHANGED << op, gil, fs, threads, walkVars, chan, sentLog, hashVars, pathVars,
                    result >>

\* for fe in rx.iter() { out.push(fe); }
Recv ==
    /\ op = "scan" /\ pc = "drain"
    /\ chan # <<>>
    /\ out' = Push(out, Head(chan))
    /\ chan' = Tail(chan)
    /\ UNCHANGED << op, pc, gil, fs, threads, walkVars, senders, sentLog,
                    hashVars, pathVars, result >>

\* rx.iter() ends: the channel is empty and every sender is gone.
DrainEnd ==
    /\ op = "scan" /\ pc = "drain"
    /\ chan = <<>> /\ senders = {}
    /\ pc' = "collected"
    /\ UNCHANGED << op, gil, fs, threads, walkVars, senders, chan, sentLog, out,
                    hashVars, pathVars, result >>

\* allow_threads returns the vector; Ok(entries) goes back to the host.
ScanReturn ==
    /\ op = "scan" /\ pc = "collected"
    /\ gil' = TRUE
    /\ result' = ReturnValue(out)
    /\ pc' = "returned"
    /\ UNCHANGED << op, fs, threads, walkVars, senders, chan, sentLog, out,
                    hashVars, pathVars >>

(***************************************************************************)
(* The path-only scan_repo_parallel(root).  Claim, Quit and Join are the   *)
(* walker's and are shared with the scan above.                            *)
(***************************************************************************)
\* entry.path().to_str(): Some for a path that is valid UTF-8, which every
\* name of the trees here is.
ToStr(p) == [some |-> TRUE, str |-> p]

\* The callback on one entry: the paths it pushes and the WalkState.
PathsCallback(entry) ==
    IF entry.ok /\ IsFile(entry.ft) /\ ToStr(entry.path).some
    THEN [push |-> << ToStr(entry.path).str >>, state |-> "Continue"]
    ELSE [push |-> <<>>, state |-> "Continue"]

\* let mut files = Vec::new(); WalkBuilder::new(root).hidden(false)
\* .follow_links(false).build_parallel(): the lock of the host stays held.
PathsCall ==
    /\ op = "paths" /\ pc = "call"
    /\ files' = <<>>
    /\ pc' = "run"
    /\ UNCHANGED << op, gil, fs, threads, walkVars, senders, chan, sentLog,
                    out, hashVars, wfiles, result >>

\* WalkParallel::run on the root path: an Err for a root that cannot be
\* stat'ed (the callback pushes nothing for it), else the first work.
PathsRunWalk ==
    /\ op = "paths" /\ pc = "run"
    /\ IF Kind(<<>>) = "missing"
       THEN /\ PathsCallback(ErrEntry(<<>>)).push = <<>>
            /\ pc' = "joined"
            /\ UNCHANGED stack
       ELSE /\ stack' = << [path |-> <<>>, ft |-> EntryType(fs, <<>>)] >>
            /\ pc' = "spawn"
    /\ UNCHANGED << op, gil, fs, threads, wstate, cur, quitNow, senders, chan,
                    sentLog, out, hashVars, pathVars, result >>

\* run(|| Box::new(move |result| { .. files.push(..) .. })): the next worker
\* gets its callback; `move` makes the vector the callback pushes into the
\* callback's own, taken from `files` as it is at that time.
PathsSpawn(w) ==
    /\ op = "paths" /\ pc = "spawn"
    /\ wstate[w] = "unspawned"
    /\ \A v \in Workers : v < w => wstate[v] # "unspawned"
    /\ wstate' = [wstate EXCEPT ![w] = "idle"]
    /\ wfiles' = [wfiles EXCEPT ![w] = files]
    /\ pc' = IF \A v \in Workers \ {w} : wstate[v] # "unspawned"
             THEN "join" ELSE "spawn"
    /\ UNCHANGED << op, gil, fs, threads, stack, cur, quitNow, senders, chan,
                    sentLog, out, hashVars, files, result >>

\* Worker::run_one with the path-only callback: files.push(p.to_string())
\* pushes into the vector the worker's callback owns.
PathsRunOne(w) ==
    /\ op = "paths" /\ pc \in {"spawn", "join"}
    /\ wstate[w] = "busy"
    /\ LET work == cur[w]
           r == PathsCallback(OkEntry(work))
           isDir == work.ft = "dir"
           listed == isDir /\ Kind(work.path) # "unreadable"
           e == IF isDir /\ ~listed
                THEN PathsCallback(ErrEntry(work.path))
                ELSE [push |-> <<>>, state |-> "Continue"]
       IN  /\ wfiles' = [wfiles EXCEPT ![w] = @ \o r.push \o e.push]
           /\ stack' = IF listed /\ r.state = "Continue"
                       THEN stack \o GenerateWork(fs, work.path,
                                                  ReadDirIn(fs, work.path), 1)
                       ELSE stack
           /\ quitNow' = (quitNow \/ r.state = "Quit" \/ e.state = "Quit")
    /\ wstate' = [wstate EXCEPT ![w] = "idle"]
    /\ cur' = [cur EXCEPT ![w] = NoWork]
    /\ UNCHANGED << op, pc, gil, fs, threads, senders, chan, sentLog, out,
                    hashVars, files, result >>

\* Ok(files): the vector of the caller goes back to the host.
PathsReturn ==
    /\ op = "paths" /\ pc = "joined"
    /\ result' = ReturnValue(files)
    /\ pc' = "returned"
    /\ UNCHANGED << op, gil, fs, threads, walkVars, senders, chan, sentLog,
                    out, hashVars, pathVars >>

(***************************************************************************)
(* hash_files_parallel.                                                    *)
(***************************************************************************)
\* paths.par_iter().map(...): the pool takes over the input positions.
HashCall ==
    /\ op = "hash" /\ pc = "call"
    /\ gil' = ~HashAllowsThreads
    /\ pc' = "hashing"
    /\ UNCHANGED << op, fs, threads, walkVars, senders, chan, sentLog, out,
                    hashVars, pathVars, result >>

\* let data = fs::read(p).unwrap_or_default();
HashRead(i) ==
    /\ op = "hash" /\ pc = "hashing"
    /\ hstate[i] = "todo"
    /\ hdata' = [hdata EXCEPT ![i] = ReadOrDefault(paths[i])]
    /\ hstate' = [hstate EXCEPT ![i] = "read"]
    /\ UNCHANGED << op, pc, gil, fs, threads, walkVars, pathVars, senders, chan, sentLog,
                    out, paths, hres, result >>

\* h.update(&data); (p.clone(), h.finalize().to_hex().to_string())
HashFinish(i) ==
    /\ op = "hash" /\ pc = "hashing"
    /\ hstate[i] = "read"
    /\ hres' = [hres EXCEPT ![i] = HashPair(paths[i], hdata[i])]
    /\ hstate' = [hstate EXCEPT ![i] = "done"]
    /\ UNCHANGED << op, pc, gil, fs, threads, walkVars, pathVars, senders, chan, sentLog,
                    out, paths, hdata, result >>

\* A faulty variant: the pairs of unreadable files are left out.
CollectReadable(res) ==
    SelectSeq([i \in 1..Len(paths) |-> res[i]], LAMBDA pr : Readable(pr[1]))

\* A faulty variant: the pairs come back last first.
CollectReversed(res) ==
    [i \in 1..Len(paths) |-> res[Len(paths) + 1 - i]]

\* collect() of the indexed parallel iterator: the pairs by input position.
Collect(res) == [i \in 1..Len(paths) |-> res[i]]

\* .collect(); Ok(out)
HashReturn ==
    /\ op = "hash" /\ pc = "hashing"
    /\ \A i \in 1..Len(paths) : hstate[i] = "done"
    /\ result' = ReturnValue(Collect(hres))
    /\ gil' = TRUE
    /\ pc' = "returned"
    /\ UNCHANGED << op, fs, threads, walkVars, senders, chan, sentLog, out,
                    hashVars, pathVars >>

Next ==
    \/ ScanCall
    \/ RunWalk
    \/ \E w \in Workers : Spawn(w)
    \/ \E w \in Workers : Claim(w)
    \/ \E w \in Workers : RunOne(w)
    \/ \E w \in Workers : Quit(w)
    \/ Join
    \/ DropTx
    \/ Recv
    \/ DrainEnd
    \/ ScanReturn
    \/ HashCall
    \/ \E i \in 1..Len(paths) : HashRead(i)
    \/ \E i \in 1..Len(paths) : HashFinish(i)
    \/ HashReturn
    \/ PathsCall
    \/ PathsRunWalk
    \/ \E w \in Workers : PathsSpawn(w)
    \/ \E w \in Workers : PathsRunOne(w)
    \/ PathsReturn

Spec == Init /\ [][Next]_vars

\* The threads are scheduled fairly: a call that can take a step takes one.
FairSpec == Spec /\ WF_vars(Next)

(***************************************************************************)
(* Properties.                                                             *)
(***************************************************************************)
Range(q) == { q[i] : i \in 1..Len(q) }
Returned(o) == op = o /\ pc = "returned"
ParentOf(p) == SubSeq(p, 1, Len(p) - 1)
NameOf(p) == p[Len(p)]
ResultPaths == { e.path : e \in Range(result.val) }

\* Every entry sent so far, wherever it now is.
Emitted == Range(chan) \cup Range(out) \cup Range(result.val)

\* p lies inside a .git directory, or is one.
InVcsDir(p) == \E i \in 1..Len(p) : p[i] = GIT

\* C1: whatever the tree and its rule files, the scan returns no entry
\* whose path lies inside a version-control metadata directory (.git).
C1_NoVcsEntry ==
    Returned("scan") => \A e \in Range(result.val) : ~InVcsDir(e.path)

\* The rule chain as the specification composes it: every rule of every
\* rule file from the root down to directory d, in file order.
RECURSIVE ChainRules(_, _)
ChainRules(t, d) ==
    LET level == RulesAtIn(t, d, "exclude") \o RulesAtIn(t, d, "gitignore")
                 \o RulesAtIn(t, d, "ignore")
    IN  IF d = <<>> THEN level ELSE ChainRules(t, ParentOf(d)) \o level

\* Reading the rules rules[i..] in order, the polarity of the last one that
\* matches; `sofar` when none does.
RECURSIVE Polarity(_, _, _, _)
Polarity(rules, name, i, sofar) ==
    IF i > Len(rules) THEN sofar
    ELSE Polarity(rules, name, i + 1,
                  IF GlobMatch(rules[i].glob, name)
                  THEN IF rules[i].neg THEN "include" ELSE "exclude"
                  ELSE sofar)

\* The only rule file of the tree is /sub/.gitignore, holding `*.log` then
\* `!keep.log`, beside a.log and keep.log.
LogScenario ==
    /\ fs.root = "dir" /\ fs.sub = "dir"
    /\ fs.subgi = <<StarLog, NotKeep>>
    /\ fs.ign = <<>> /\ fs.gi = <<>> /\ fs.excl = <<>>

LogScenarioResult ==
    /\ <<SUB, A_LOG>> \notin ResultPaths
    /\ <<SUB, KEEP_LOG>> \in ResultPaths

RECURSIVE RootDown(_)
RootDown(d) == IF d = <<>> THEN << <<>> >> ELSE RootDown(ParentOf(d)) \o <<d>>

\* The directories from the root of the repository that encloses d down to
\* d; none when d is in no repository.
RECURSIVE RepoDown(_, _)
RepoDown(t, d) ==
    IF HasGitIn(t, d) THEN <<d>>
    ELSE IF d = <<>> THEN <<>>
    ELSE LET up == RepoDown(t, ParentOf(d))
         IN  IF up = <<>> THEN <<>> ELSE up \o <<d>>

\* The rules of the rule files of one kind along dirs[i..].
RECURSIVE KindRules(_, _, _, _)
KindRules(t, dirs, kind, i) ==
    IF i > Len(dirs) THEN <<>>
    ELSE RulesAtIn(t, dirs[i], kind) \o KindRules(t, dirs, kind, i + 1)

\* The verdict by kind: the .ignore files decide if one of their rules
\* matches, else the .gitignore files of the enclosing repository, else its
\* info/exclude; within a kind the last matching rule wins.
KindVerdict(t, d, name) ==
    LET vi == Polarity(KindRules(t, RootDown(d), "ignore", 1), name, 1, "none")
        vg == Polarity(KindRules(t, RepoDown(t, d), "gitignore", 1),
                       name, 1, "none")
        vx == Polarity(KindRules(t, RepoDown(t, d), "exclude", 1),
                       name, 1, "none")
    IN  IF vi # "none" THEN vi ELSE IF vg # "none" THEN vg ELSE vx

UnderSymlink(p) == \E k \in 0..(Len(p) - 1) : Kind(SubSeq(p, 1, k)) = "symlink"

C4Tree ==
    [root |-> "dir", git |-> TRUE, sub |-> "none", ign |-> <<>>, gi |-> <<>>,
     excl |-> <<StarLog>>, subgi |-> <<>>, stat |-> "ok"]

\* C4: on that tree, with threads = 0, the scan returns exactly one entry,
\* the one of /a.txt.
C4_OnlyATxt ==
    (Returned("scan") /\ fs = C4Tree /\ threads = 0) =>
        /\ result.ok
        /\ Len(result.val) = 1
        /\ result.val[1].path = <<A_TXT>>

\* The entries a single worker sends, emptying the stack `works` alone.
RECURSIVE OneThreadWalk(_, _)
OneThreadWalk(t, works) ==
    IF works = <<>> THEN <<>>
    ELSE LET w == works[Len(works)]
             rest == SubSeq(works, 1, Len(works) - 1)
             below == IF w.ft = "dir" /\ KindIn(t, w.path) # "unreadable"
                      THEN GenerateWork(t, w.path, ReadDirIn(t, w.path), 1)
                      ELSE <<>>
         IN  Callback(t, OkEntry(w)).send \o OneThreadWalk(t, rest \o below)

\* What a walk of tree t by one worker yields.
WalkOf(t) ==
    IF t.root = "missing" THEN <<>>
    ELSE OneThreadWalk(t, << [path |-> <<>>, ft |-> EntryType(t, <<>>)] >>)

\* C5: the set of (path, size, mtime_s) returned is a function of the tree
\* alone: whatever `threads` and whatever the interleaving of the workers,
\* it is the set a walk by one worker yields.
C5_SetIsFunctionOfTree ==
    Returned("scan") => Range(result.val) = Range(WalkOf(fs))

C5_Witness ==
    /\ Returned("scan") /\ Cardinality(Workers) > 1
    /\ Len(result.val) > 1
    /\ result.val # WalkOf(fs)

Count(q, x) == Cardinality({ i \in 1..Len(q) : q[i] = x })
OutPaths == [i \in 1..Len(result.val) |-> result.val[i][1]]

\* C6: hash_files_parallel hands back exactly one (path, digest_hex) pair
\* per input position, for every list (empty, with duplicates, with
\* unreadable paths): each path occurs in the output as often as in the
\* input.
C6_OnePairPerInput ==
    Returned("hash") =>
        /\ result.ok
        /\ Len(result.val) = Len(paths)
        /\ \A i \in 1..Len(result.val) : Len(result.val[i]) = 2
        /\ \A p \in HashPaths : Count(OutPaths, p) = Count(paths, p)

C6_Witness ==
    /\ Returned("hash") /\ Len(result.val) = 3
    /\ \E i, j \in 1..Len(paths) : i # j /\ paths[i] = paths[j]
    /\ \E k \in 1..Len(paths) : ~Readable(paths[k])

\* C7: a path that cannot be read gets the digest of the empty byte
\* sequence; the call still succeeds, and every readable path still gets
\* the digest of its own content.
C7_UnreadableHashesAsEmpty ==
    Returned("hash") =>
        /\ result.ok
        /\ \A i \in 1..Len(paths) :
               \E j \in 1..Len(result.val) : result.val[j][1] = paths[i]
        /\ \A j \in 1..Len(result.val) :
               result.val[j][2] =
                   IF Readable(result.val[j][1])
                   THEN ToHex(Blake3(Content(result.val[j][1])))
                   ELSE ToHex(Blake3(<<>>))

C7_Witness ==
    /\ Returned("hash")
    /\ \E j \in 1..Len(result.val) :
           ~Readable(result.val[j][1]) /\ result.val[j][2] = ToHex(Blake3(<<>>))
    /\ \E j \in 1..Len(result.val) :
           Readable(result.val[j][1]) /\ result.val[j][2] # ToHex(Blake3(<<>>))

\* C8 as stated: when root_path does not exist or cannot be opened as a
\* directory, the scan returns a successful, empty sequence, whatever
\* `threads`.
C8_EmptyUnlessOpenableDir ==
    (Returned("scan") /\ fs.root \in {"missing", "file", "unreadable"}) =>
        result = [ok |-> TRUE, val |-> <<>>]

\* C8, amended: when root_path does not exist or is a directory that
\* cannot be listed, the scan returns a successful, empty sequence,
\* whatever `threads`; when root_path is a regular file, it returns
\* successfully the one entry of that file.
C8_EmptyOnMissingOrUnlistableRoot ==
    Returned("scan") =>
        /\ fs.root \in {"missing", "unreadable"} =>
               result = [ok |-> TRUE, val |-> <<>>]
        /\ fs.root = "file" =>
               /\ result.ok
               /\ Len(result.val) = 1
               /\ result.val[1].path = <<>>

C8_Witness ==
    /\ Returned("scan") /\ fs.root = "missing" /\ threads > 0
    /\ result = [ok |-> TRUE, val |-> <<>>]

\* C9: when the metadata of the included file /a.txt cannot be read, the
\* file is still in the result, with size 0 and mtime_s 0, and the result
\* holds the same paths as when the metadata can be read.
C9_StatFailureKeepsEntry ==
    (Returned("scan") /\ fs.stat = "err") =>
        /\ [path |-> <<A_TXT>>, size |-> 0, mtime_s |-> 0]
               \in Range(result.val)
        /\ ResultPaths =
               { e.path : e \in Range(WalkOf([fs EXCEPT !.stat = "ok"])) }

C9_Witness ==
    /\ Returned("scan") /\ fs.stat = "err"
    /\ Len(result.val) > 2
    /\ \E e \in Range(result.val) : e.path = <<A_TXT>> /\ e.size = 0

\* A thread of the parallel operation is running: a walker worker that has
\* started and not stopped, or a pool thread inside the hashing closure.
WorkersRunning ==
    \/ op = "scan" /\ \E w \in Workers : wstate[w] \in {"idle", "busy"}
    \/ op = "hash" /\ pc = "hashing"
       /\ \E i \in 1..Len(paths) : hstate[i] = "read"

\* C10: for both entry points, the calling thread does not hold the host's
\* global lock while threads of the parallel operation run, and holds it
\* again when the result is handed back.
C10_LockReleasedWhileParallel ==
    /\ WorkersRunning => ~gil
    /\ pc = "returned" => gil

\* The sequences q and r hold the same values, each as often.
SameBag(q, r) ==
    /\ Len(q) = Len(r)
    /\ \A x \in Range(q) \cup Range(r) : Count(q, x) = Count(r, x)

\* C11: the drain loop ends only once every producer handle (tx and every
\* worker's clone) has been dropped, and the collection returned holds
\* exactly the entries that were sent, each as often as it was sent.
C11_AggregatorReturnsAllSent ==
    op = "scan" =>
        /\ pc \in {"collected", "returned"} =>
               /\ senders = {}
               /\ chan = <<>>
               /\ SameBag(out, sentLog)
        /\ pc = "returned" => SameBag(result.val, sentLog)

C11_Witness ==
    /\ Returned("scan") /\ Cardinality(Workers) > 1
    /\ Len(sentLog) > 2
    /\ \E e \in Range(sentLog) : e.size = 0
    /\ result.val = sentLog

\* Every path of the tree universe.
RECURSIVE Below(_)
Below(p) == {p} \cup UNION { Below(Append(p, n)) : n \in Range(DirNames(p)) }
AllPaths == Below(<<>>)

\* Every directory above p is a directory that can be listed and no
\* component of p is excluded by the rules.
ReachableIncluded(t, p) ==
    \A k \in 1..Len(p) :
        /\ KindIn(t, SubSeq(p, 1, k - 1)) = "dir"
        /\ KindVerdict(t, SubSeq(p, 1, k - 1), p[k]) # "exclude"

\* C13: every included regular file reachable from the root through
\* included directories that are not links is returned exactly once: no
\* path is returned twice and no entry sent is lost.
C13_EachFileExactlyOnce ==
    Returned("scan") =>
        /\ \A p \in AllPaths :
               (KindIn(fs, p) = "file" /\ ReachableIncluded(fs, p)) =>
                   Cardinality({ i \in 1..Len(result.val) :
                                     result.val[i].path = p }) = 1
        /\ \A i, j \in 1..Len(result.val) :
               result.val[i].path = result.val[j].path => i = j
        /\ Len(result.val) = Len(sentLog)

C13_Witness ==
    /\ Returned("scan") /\ Cardinality(Workers) > 1
    /\ fs.sub = "dir"
    /\ Len(result.val) > 4

\* C14: two readable paths whose files hold the same bytes get the same
\* digest_hex, whatever the path, the position and the order in which the
\* pool worked; files that differ in content here get different digests.
C14_SameContentSameDigest ==
    Returned("hash") =>
        \A i, j \in 1..Len(result.val) :
            (Readable(result.val[i][1]) /\ Readable(result.val[j][1])) =>
                ((Content(result.val[i][1]) = Content(result.val[j][1]))
                     <=> (result.val[i][2] = result.val[j][2]))

C14_Witness ==
    /\ Returned("hash")
    /\ \E i, j \in 1..Len(result.val) :
           /\ result.val[i][1] = "f1" /\ result.val[j][1] = "f2"
           /\ result.val[i][2] = result.val[j][2]

\* Path p is, or lies below, an entry the rules exclude.
UnderExcluded(t, p) ==
    \E k \in 1..Len(p) :
        KindVerdict(t, SubSeq(p, 1, k - 1), p[k]) = "exclude"

\* One step of a scan pushes no work, hands no worker a piece of work and
\* sends no entry that is, or lies below, an excluded entry.
NoExcludedStep ==
    op = "scan" =>
        /\ \A i \in (Len(stack) + 1)..Len(stack') :
               ~UnderExcluded(fs, stack'[i].path)
        /\ \A w \in Workers :
               (wstate[w] # "busy" /\ wstate'[w] = "busy") =>
                   ~UnderExcluded(fs, cur'[w].path)
        /\ \A i \in (Len(sentLog) + 1)..Len(sentLog') :
               ~UnderExcluded(fs, sentLog'[i].path)

\* C15: an excluded entry never becomes work and is never sent, and so
\* nothing below an excluded directory is ever listed or sent: no step of
\* a scan enqueues, claims or sends a path at or below an excluded entry.
C15_ExcludedIsPruned == [][NoExcludedStep]_vars

C15_Witness ==
    /\ Returned("scan") /\ fs.sub = "dir" /\ fs.git /\ fs.gi = <<NoSub>>
    /\ <<A_TXT>> \in ResultPaths
    /\ \A p \in ResultPaths : p[1] # SUB

\* C16: an Err the walker delivers (here: the directory sub cannot be
\* listed) does not stop the walk: the quit flag is never set, and the
\* result holds every path it holds when sub is not there at all.
C16_EntryErrorIsSkipped ==
    /\ op = "scan" => ~quitNow
    /\ (Returned("scan") /\ fs.sub = "unreadable") =>
           ResultPaths =
               { e.path : e \in Range(WalkOf([fs EXCEPT !.sub = "none"])) }

C16_Witness ==
    /\ Returned("scan") /\ fs.sub = "unreadable"
    /\ {<<A_TXT>>, <<B_LOG>>} \subseteq ResultPaths

\* C17: the scan cannot get stuck: the drain loop runs only after every
\* worker has stopped, and until the call has returned some step of the
\* scan can always be taken (no send ever waits for room in the channel).
C17_NoDeadlock ==
    op = "scan" =>
        /\ pc \in {"drain", "collected", "returned"} =>
               \A w \in Workers : wstate[w] \in {"unspawned", "quit"}
        /\ pc # "returned" => ENABLED Next

C17_Witness ==
    /\ op = "scan" /\ pc = "join" /\ Len(chan) > 2
    /\ \E w \in Workers : wstate[w] = "busy" /\ cur[w].ft = "file"

\* C18: the i-th pair of the output carries the i-th input path, whatever
\* the order in which the pool worked.
C18_InputOrderKept ==
    Returned("hash") =>
        /\ Len(result.val) = Len(paths)
        /\ \A i \in 1..Len(paths) : result.val[i][1] = paths[i]

C18_Witness ==
    /\ Returned("hash") /\ Len(paths) = 3
    /\ paths[1] # paths[2] /\ paths[2] # paths[3] /\ paths[1] # paths[3]
    /\ result.val[1][1] = paths[1] /\ result.val[3][1] = paths[3]

\* C12: under fair scheduling a scan returns, whatever the tree and the
\* number of workers; a worker stops, and the walk is over, only when the
\* stack is empty and no worker holds work; the quit flag is never what
\* ends it.
C12_TerminatesWhenNoWorkIsLeft ==
    /\ [](op = "scan" =>
            /\ ~quitNow
            /\ (\E w \in Workers : wstate[w] = "quit") => NoPendingWork
            /\ pc \in {"joined", "drain", "collected", "returned"} =>
                   NoPendingWork)
    /\ (op = "scan") ~> (op = "scan" /\ pc = "returned")

C12_Witness ==
    /\ op = "scan" /\ pc = "join" /\ Cardinality(Workers) > 1
    /\ \E w, v \in Workers :
           /\ wstate[w] = "quit" /\ wstate[v] = "idle"
           /\ Len(sentLog) > 4

\* The paths the callbacks of the path-only scan have pushed.
Pushed == UNION { Range(wfiles[w]) : w \in Workers }

=============================================================================
